---- MODULE Spec2Model ----
(***************************************************************************)
(* Stock Analysis API (backend/app/main.py, backend/app/indicators.py).    *)
(*                                                                         *)
(* Spec      : get_history served one request at a time: TTL cache lookup, *)
(*             the two-path retrying fetch (_download_history), cache set, *)
(*             response.                                                   *)
(* CacheSpec : _cache_get / _cache_set called in any order on one store.   *)
(* ConcSpec  : _cache_get / _cache_set run by concurrent request threads,  *)
(*             one step per source statement.                              *)
(* IndSpec   : compute_indicators applied to bounded close series.         *)
(***************************************************************************)
EXTENDS Integers, Sequences, FiniteSets, TLC

VARIABLES
    CACHE_TTL_SECONDS,  \* main.py:29, read once from the environment
    now,                \* the reading of time.time(), in seconds
    _history_cache,     \* main.py:30, key -> <<expires_at, value>>
    pc,                 \* where the request in flight stands
    cache_key,          \* get_history: (symbol, period, interval)
    attempt,            \* _download_history: loop index of the current path
    last_error,         \* _download_history: last_error
    rate_limited,       \* _download_history: rate_limited
    df,                 \* the series the request works on
    result,             \* how _download_history ended
    response,           \* the answer of the last finished request
    events,             \* instrumentation: upstream calls and sleeps, in order
    last_outcome,       \* instrumentation: what the last upstream call gave
    last_raised,        \* instrumentation: the last fault the upstream raised
    last_raised_at,     \* instrumentation: the index in events of the call that raised it
    rl_raised,          \* instrumentation: some raised fault was rate-limited
    evicted,            \* instrumentation: the request's lookup removed an entry
    _quote_cache,       \* main.py:31, symbol -> <<expires_at, value>>
    last_set,           \* instrumentation: key -> <<time, value>> of its latest set call
    last_get,           \* instrumentation: the latest call, when it was a get
    thr,                \* the threads running a cache operation, statement by statement
    store0,             \* instrumentation: the store before the threads started
    popped,             \* instrumentation: <<expires_at, time>> of every entry a pop removed
    written,            \* instrumentation: every entry ever put in the store
    close,              \* compute_indicators: df["Close"].astype(float)
    gen,                \* how the close series was drawn: last real close, step, turns
    ind_out,            \* the latest compute_indicators call: its wants and its result
    volumes,            \* get_history: row.get("volume") of each row of df
    candles,            \* get_history: the volume of each Candle built
    quote,              \* get_quote: the latest request, its lookups and its answer
    heap,               \* the DataFrame objects alive: object -> its content
    work,               \* get_history, lines 317-335: the statement reached and its df object
    origin              \* instrumentation: key -> the content fetched for its entry

histVars == <<_history_cache, pc, cache_key, attempt, last_error, rate_limited,
              df, result, response, events, last_outcome, last_raised,
              last_raised_at, rl_raised, evicted>>

cacheVars == <<_quote_cache, last_set, last_get>>

concVars == <<thr, store0, popped, written>>

indVars == <<close, gen, ind_out>>

candleVars == <<volumes, candles>>

quoteVars == <<quote>>

copyVars == <<heap, work, origin>>

restVars == <<candleVars, quoteVars, copyVars>>

vars == <<CACHE_TTL_SECONDS, now, histVars, cacheVars, concVars, indVars, restVars>>

----------------------------------------------------------------------------
(* Bounds *)

MaxTTL == 2
MaxTime == 4
\* close series: at most MaxLen observations, drawn as runs of equal steps (or of
\* missing observations) with at most MaxTurns changes of run, from BasePrice
MaxLen == 15
MaxTurns == 1
BasePrice == 20
\* ewm is asked for on series of at most MaxEmaLen closes (its exact arithmetic
\* leaves the 32-bit integers from the fourth close on)
MaxEmaLen == 2
\* at most MaxRows rows in a frame whose candles are built
MaxRows == 3
\* long close series: whole runs of RunLen closes, at most MaxLong closes in all
RunLen == 5
MaxLong == 55

----------------------------------------------------------------------------
(* Values *)

None == "None"

\* What an upstream call can return: a non-empty frame, None, an empty frame.
Frames == {"dfA", "dfB"}
EmptyFrame == "EMPTY"

\* Faults an upstream call can raise, one per branch of _is_rate_limited_error.
Faults == {"e_text_429", "e_text_tmr", "e_json", "e_resp_429", "e_http_500", "e_conn"}

Outcomes == Frames \cup {None, EmptyFrame} \cup Faults

\* str(err).lower()
StrLower(err) ==
    CASE err = "e_text_429" -> "http 429"
      [] err = "e_text_tmr" -> "too many requests"
      [] err = "e_json"     -> "expecting value: line 1 column 1 (char 0)"
      [] err = "e_resp_429" -> "rate limit exceeded"
      [] err = "e_http_500" -> "500 server error"
      [] OTHER              -> "connection reset by peer"

\* marker in msg, for the messages above
Contains(msg, marker) ==
    \/ marker = "429" /\ msg = "http 429"
    \/ marker = "too many requests" /\ msg = "too many requests"

IsJSONDecodeError(err) == err = "e_json"

IsHTTPError(err) == err \in {"e_resp_429", "e_http_500"}

\* getattr(getattr(err, "response", None), "status_code", None)
ResponseStatus(err) ==
    CASE err = "e_resp_429" -> "429"
      [] err = "e_http_500" -> "500"
      [] OTHER              -> None

_is_rate_limited_error(err) ==
    LET msg == StrLower(err) IN
    IF Contains(msg, "429") \/ Contains(msg, "too many requests") THEN TRUE
    ELSE IF IsJSONDecodeError(err) THEN TRUE
    ELSE IF ResponseStatus(err) = "429" THEN TRUE
    ELSE IF IsHTTPError(err) /\ ResponseStatus(err) # None
         THEN ResponseStatus(err) = "429"
    ELSE FALSE

\* ticker.upper()
Upper(ticker) == IF ticker = "aapl" THEN "AAPL" ELSE ticker

Tickers == {"aapl", "AAPL"}
Periods == {"1y", "5d"}
Intervals == {"1d"}

----------------------------------------------------------------------------
(* TTL cache *)

EmptyStore == [k \in {} |-> <<0, None>>]

\* store.pop(key, None)
Pop(store, key) == [k \in (DOMAIN store) \ {key} |-> store[k]]

\* _cache_get with the expiry test inclusive (expires_at >= now)
_cache_get_Inclusive(store, key, t) ==
    IF CACHE_TTL_SECONDS <= 0 THEN None
    ELSE IF key \notin DOMAIN store THEN None
    ELSE IF store[key][1] >= t THEN store[key][2]
    ELSE None

\* the value _cache_get returns when the clock reads t
_cache_get(store, key, t) ==
    IF CACHE_TTL_SECONDS <= 0 THEN None
    ELSE IF key \notin DOMAIN store THEN None
    ELSE IF store[key][1] > t THEN store[key][2]
    ELSE None

\* the store _cache_get leaves behind
_cache_get_store(store, key, t) ==
    IF CACHE_TTL_SECONDS <= 0 THEN store
    ELSE IF key \notin DOMAIN store THEN store
    ELSE IF store[key][1] > t THEN store
    ELSE Pop(store, key)

\* _cache_set without the TTL <= 0 early return
_cache_set_NoGuard(store, key, value, t) ==
    [k \in (DOMAIN store) \cup {key} |->
        IF k = key THEN <<t + CACHE_TTL_SECONDS, value>> ELSE store[k]]

\* _cache_set storing the time of the set as the expiry
_cache_set_NoTTL(store, key, value, t) ==
    IF CACHE_TTL_SECONDS <= 0 THEN store
    ELSE [k \in (DOMAIN store) \cup {key} |->
             IF k = key THEN <<t, value>> ELSE store[k]]

\* the store _cache_set leaves behind when the clock reads t
_cache_set(store, key, value, t) ==
    IF CACHE_TTL_SECONDS <= 0 THEN store
    ELSE [k \in (DOMAIN store) \cup {key} |->
             IF k = key THEN <<t + CACHE_TTL_SECONDS, value>> ELSE store[k]]

----------------------------------------------------------------------------
(* get_history and _download_history *)

NoResponse == [status |-> 0, body |-> None, detail |-> None]

\* an upstream call: its path, its attempt number, whether it gave a non-empty frame
Call(path, n, ok) == [ev |-> "call", path |-> path, n |-> n, ok |-> ok]
\* time.sleep(1.5 * (attempt + 1)), in tenths of a second
Sleep(path, n) == [ev |-> "sleep", path |-> path, n |-> 15 * (n + 1), ok |-> FALSE]

\* no request yet
HistInit ==
    /\ _history_cache = EmptyStore
    /\ pc = "idle"
    /\ cache_key = <<>>
    /\ attempt = 0
    /\ last_error = None
    /\ rate_limited = FALSE
    /\ df = None
    /\ result = None
    /\ response = NoResponse
    /\ events = <<>>
    /\ last_outcome = None
    /\ last_raised = None
    /\ last_raised_at = 0
    /\ rl_raised = FALSE
    /\ evicted = FALSE

\* the wall clock advances
Tick ==
    /\ now < MaxTime
    /\ now' = now + 1
    /\ UNCHANGED <<CACHE_TTL_SECONDS, histVars, cacheVars, concVars, indVars, restVars>>

\* get_history, lines 315-319: the cache lookup; a hit answers at once
GetHistory(ticker, period, interval) ==
    LET key == <<Upper(ticker), period, interval>>
        cached_df == _cache_get(_history_cache, key, now)
    IN
    /\ pc = "idle"
    /\ cache_key' = key
    /\ _history_cache' = _cache_get_store(_history_cache, key, now)
    /\ events' = <<>>
    /\ last_outcome' = None
    /\ last_raised' = None
    /\ last_raised_at' = 0
    /\ rl_raised' = FALSE
    /\ evicted' = (_cache_get_store(_history_cache, key, now) # _history_cache)
    /\ attempt' = 0
    /\ last_error' = None
    /\ rate_limited' = FALSE
    /\ IF cached_df # None
       THEN /\ df' = cached_df
            /\ result' = "cached"
            /\ response' = [status |-> 200, body |-> cached_df, detail |-> None]
            /\ pc' = "idle"
       ELSE /\ df' = None
            /\ result' = None
            /\ response' = NoResponse
            /\ pc' = "yf_download"
    /\ UNCHANGED <<CACHE_TTL_SECONDS, now, cacheVars, concVars, indVars, restVars>>

\* what the instrumentation sees of an upstream call
Observe(path, outcome) ==
    /\ events' = Append(events, Call(path, attempt + 1, outcome \in Frames))
    /\ last_outcome' = outcome
    /\ IF outcome \in Faults
       THEN /\ last_raised' = outcome
            /\ last_raised_at' = Len(events) + 1
            /\ rl_raised' = (rl_raised \/ _is_rate_limited_error(outcome))
       ELSE UNCHANGED <<last_raised, last_raised_at, rl_raised>>

\* Attempt that goes on retrying after a non-empty frame
Attempt_NoShortCircuit(outcome, sleep_pc) ==
    /\ IF outcome \in Faults
       THEN /\ last_error' = outcome
            /\ rate_limited' = (rate_limited \/ _is_rate_limited_error(outcome))
            /\ df' = df
       ELSE /\ UNCHANGED <<last_error, rate_limited>>
            /\ IF outcome # None /\ outcome # EmptyFrame
               THEN df' = outcome
               ELSE df' = df
    /\ pc' = sleep_pc
    /\ UNCHANGED <<CACHE_TTL_SECONDS, now, _history_cache, evicted, cache_key, attempt,
                   result, response>>

\* Attempt in which an empty result clears the recorded fault
Attempt_EmptyClears(outcome, sleep_pc) ==
    /\ IF outcome \in Faults
       THEN /\ last_error' = outcome
            /\ rate_limited' = (rate_limited \/ _is_rate_limited_error(outcome))
            /\ df' = df
            /\ pc' = sleep_pc
       ELSE /\ rate_limited' = rate_limited
            /\ IF outcome # None /\ outcome # EmptyFrame
               THEN df' = outcome /\ pc' = "return" /\ last_error' = last_error
               ELSE df' = df /\ pc' = sleep_pc /\ last_error' = None
    /\ UNCHANGED <<CACHE_TTL_SECONDS, now, _history_cache, evicted, cache_key, attempt,
                   result, response>>

\* one pass of a retry loop up to its sleep: lines 200-215 and 219-232
Attempt(outcome, sleep_pc) ==
    /\ IF outcome \in Faults
       THEN /\ last_error' = outcome
            /\ rate_limited' = (rate_limited \/ _is_rate_limited_error(outcome))
            /\ df' = df
            /\ pc' = sleep_pc
       ELSE /\ UNCHANGED <<last_error, rate_limited>>
            /\ IF outcome # None /\ outcome # EmptyFrame
               THEN df' = outcome /\ pc' = "return"
               ELSE df' = df /\ pc' = sleep_pc
    /\ UNCHANGED <<CACHE_TTL_SECONDS, now, _history_cache, evicted, cache_key, attempt,
                   result, response>>

\* Backoff of a loop that makes four passes
Backoff_FourAttempts(path, again_pc, next_pc) ==
    /\ events' = Append(events, Sleep(path, attempt))
    /\ IF attempt + 1 < 4
       THEN attempt' = attempt + 1 /\ pc' = again_pc
       ELSE attempt' = 0 /\ pc' = next_pc
    /\ UNCHANGED <<CACHE_TTL_SECONDS, now, _history_cache, evicted, cache_key, last_error,
                   rate_limited, df, result, response, last_outcome, last_raised,
                   last_raised_at, rl_raised>>

\* line 216 / 233 and the loop header: sleep, then the next pass or the next stage
Backoff(path, again_pc, next_pc) ==
    /\ events' = Append(events, Sleep(path, attempt))
    /\ IF attempt + 1 < 3
       THEN attempt' = attempt + 1 /\ pc' = again_pc
       ELSE attempt' = 0 /\ pc' = next_pc
    /\ UNCHANGED <<CACHE_TTL_SECONDS, now, _history_cache, evicted, cache_key, last_error,
                   rate_limited, df, result, response, last_outcome, last_raised,
                   last_raised_at, rl_raised>>

YfDownload(outcome) ==
    /\ pc = "yf_download"
    /\ UNCHANGED <<cacheVars, concVars, indVars, restVars>>
    /\ Attempt(outcome, "sleep_download")
    /\ Observe("yf.download", outcome)

SleepDownload ==
    /\ pc = "sleep_download"
    /\ UNCHANGED <<cacheVars, concVars, indVars, restVars>>
    /\ Backoff("yf.download", "yf_download", "ticker_history")

TickerHistory(outcome) ==
    /\ pc = "ticker_history"
    /\ UNCHANGED <<cacheVars, concVars, indVars, restVars>>
    /\ Attempt(outcome, "sleep_history")
    /\ Observe("ticker.history", outcome)

SleepHistory ==
    /\ pc = "sleep_history"
    /\ UNCHANGED <<cacheVars, concVars, indVars, restVars>>
    /\ Backoff("ticker.history", "ticker_history", "exhausted")

\* DownloadResult classifying the last fault instead of reading the flag
DownloadResult_LastFault ==
    IF pc = "return" THEN "df"
    ELSE IF last_error # None /\ _is_rate_limited_error(last_error)
         THEN "UpstreamRateLimitError"
    ELSE IF last_error # None THEN "raise"
    ELSE "empty"

\* how _download_history ends: a return at line 210/227, or lines 235-240
DownloadResult ==
    IF pc = "return" THEN "df"
    ELSE IF rate_limited THEN "UpstreamRateLimitError"
    ELSE IF last_error # None THEN "raise"
    ELSE "empty"

\* Respond without the empty check of line 327
Respond_NoEmptyCheck(how) ==
    CASE how = "UpstreamRateLimitError"
           -> [status |-> 429, body |-> None, detail |-> None]
      [] how = "raise"
           -> [status |-> 503, body |-> None, detail |-> last_error]
      [] OTHER
           -> [status |-> 200, body |-> df, detail |-> None]

\* get_history, lines 321-329 onward: the answer to what the fetch gave
Respond(how) ==
    CASE how = "UpstreamRateLimitError"
           -> [status |-> 429, body |-> None, detail |-> None]
      [] how = "raise"
           -> [status |-> 503, body |-> None, detail |-> last_error]
      [] how = "empty"
           -> [status |-> 404, body |-> None, detail |-> None]
      [] OTHER
           -> [status |-> 200, body |-> df, detail |-> None]

\* Finish that stores whatever the fetch left, failed or not
Finish_CachesFailure ==
    /\ pc \in {"return", "exhausted"}
    /\ result' = DownloadResult
    /\ response' = Respond(DownloadResult)
    /\ _history_cache' = _cache_set(_history_cache, cache_key, df, now)
    /\ pc' = "idle"
    /\ UNCHANGED <<cacheVars, concVars, indVars, restVars>>
    /\ UNCHANGED <<CACHE_TTL_SECONDS, now, evicted, cache_key, attempt, last_error,
                   rate_limited, df, events, last_outcome, last_raised,
                   last_raised_at, rl_raised>>


\* get_history, lines 321-329: the fetch is over; only a series is stored
Finish ==
    /\ pc \in {"return", "exhausted"}
    /\ result' = DownloadResult
    /\ response' = Respond(DownloadResult)
    /\ _history_cache' = IF DownloadResult = "df"
                         THEN _cache_set(_history_cache, cache_key, df, now)
                         ELSE _history_cache
    /\ pc' = "idle"
    /\ UNCHANGED <<cacheVars, concVars, indVars, restVars>>
    /\ UNCHANGED <<CACHE_TTL_SECONDS, now, evicted, cache_key, attempt, last_error,
                   rate_limited, df, events, last_outcome, last_raised,
                   last_raised_at, rl_raised>>

----------------------------------------------------------------------------
(* _cache_get and _cache_set called in any order *)

CacheKeys == {"AAPL", "MSFT"}
CacheValues == {"q1", "q2"}

NoGet == [key |-> None, t |-> 0, value |-> None, found |-> FALSE, expires_at |-> 0]

CacheInit ==
    /\ _quote_cache = EmptyStore
    /\ last_set = EmptyStore
    /\ last_get = NoGet

\* one call of _cache_get(_quote_cache, key), as in get_quote line 246
CacheGet(key) ==
    /\ last_get' = [key |-> key, t |-> now,
                    value |-> _cache_get(_quote_cache, key, now),
                    found |-> key \in DOMAIN _quote_cache,
                    expires_at |-> IF key \in DOMAIN _quote_cache THEN _quote_cache[key][1] ELSE 0]
    /\ _quote_cache' = _cache_get_store(_quote_cache, key, now)
    /\ UNCHANGED <<CACHE_TTL_SECONDS, now, last_set, histVars, concVars, indVars, restVars>>

\* one call of _cache_set(_quote_cache, key, value), as in get_quote line 305
CacheSet(key, value) ==
    /\ _quote_cache' = _cache_set(_quote_cache, key, value, now)
    /\ last_set' = [k \in (DOMAIN last_set) \cup {key} |->
                       IF k = key THEN <<now, value>> ELSE last_set[k]]
    /\ last_get' = NoGet
    /\ UNCHANGED <<CACHE_TTL_SECONDS, now, histVars, concVars, indVars, restVars>>

----------------------------------------------------------------------------
(* _cache_get and _cache_set run by concurrent request threads *)

Threads == {"t1", "t2"}

Ready == [pc |-> "ready", op |-> None, key |-> None, value |-> None,
          found |-> FALSE, expires_at |-> 0, entry_value |-> None,
          t |-> 0, ret |-> None]

ConcInit ==
    /\ thr = [t \in Threads |-> Ready]
    /\ store0 = EmptyStore
    /\ popped = {}
    /\ written = {}

concFrame == <<CACHE_TTL_SECONDS, now, histVars, last_set, last_get, store0, indVars, restVars>>

\* the call returns ret
Return(t, ret) == [thr EXCEPT ![t].pc = "done", ![t].ret = ret]

\* _cache_get is called: lines 148-149
GetCall(t, key) ==
    /\ thr[t].pc = "ready"
    /\ thr' = [thr EXCEPT ![t] =
                  [Ready EXCEPT !.op = "get", !.key = key,
                                !.pc = IF CACHE_TTL_SECONDS <= 0 THEN "done" ELSE "get150"]]
    /\ UNCHANGED <<_quote_cache, popped, written, concFrame>>

\* lines 150-153: entry = store.get(key)
GetRead(t) ==
    /\ thr[t].pc = "get150"
    /\ thr' = IF thr[t].key \in DOMAIN _quote_cache
              THEN [thr EXCEPT ![t].pc = "get154", ![t].found = TRUE,
                               ![t].expires_at = _quote_cache[thr[t].key][1],
                               ![t].entry_value = _quote_cache[thr[t].key][2]]
              ELSE Return(t, None)
    /\ UNCHANGED <<_quote_cache, popped, written, concFrame>>

\* lines 154-155: expires_at > time.time()
GetCheck(t) ==
    /\ thr[t].pc = "get154"
    /\ thr' = IF thr[t].expires_at > now
              THEN [Return(t, thr[t].entry_value) EXCEPT ![t].t = now]
              ELSE [thr EXCEPT ![t].pc = "get156", ![t].t = now]
    /\ UNCHANGED <<_quote_cache, popped, written, concFrame>>

\* lines 156-157: store.pop(key, None)
GetPop(t) ==
    /\ thr[t].pc = "get156"
    /\ _quote_cache' = Pop(_quote_cache, thr[t].key)
    /\ popped' = IF thr[t].key \in DOMAIN _quote_cache
                 THEN popped \cup {<<_quote_cache[thr[t].key][1], now>>}
                 ELSE popped
    /\ thr' = Return(t, None)
    /\ UNCHANGED <<written, concFrame>>

\* _cache_set is called: lines 161-162
SetCall(t, key, value) ==
    /\ thr[t].pc = "ready"
    /\ thr' = [thr EXCEPT ![t] =
                  [Ready EXCEPT !.op = "set", !.key = key, !.value = value,
                                !.pc = IF CACHE_TTL_SECONDS <= 0 THEN "done" ELSE "set163"]]
    /\ UNCHANGED <<_quote_cache, popped, written, concFrame>>

\* line 163, right-hand side: (time.time() + CACHE_TTL_SECONDS, value)
SetEntry(t) ==
    /\ thr[t].pc = "set163"
    /\ thr' = [thr EXCEPT ![t].pc = "set163_store", ![t].t = now,
                          ![t].expires_at = now + CACHE_TTL_SECONDS]
    /\ UNCHANGED <<_quote_cache, popped, written, concFrame>>

\* line 163, the assignment store[key] = ...
SetStore(t) ==
    /\ thr[t].pc = "set163_store"
    /\ _quote_cache' = [k \in (DOMAIN _quote_cache) \cup {thr[t].key} |->
                    IF k = thr[t].key THEN <<thr[t].expires_at, thr[t].value>>
                    ELSE _quote_cache[k]]
    /\ written' = written \cup {<<thr[t].expires_at, thr[t].value>>}
    /\ thr' = Return(t, None)
    /\ UNCHANGED <<popped, concFrame>>

----------------------------------------------------------------------------
(* Floating-point values, kept exact: <<n, d>> with d > 0 is n/d; d = 0 marks *)
(* the non-finite values NaN, +inf and -inf.                                  *)

NaN == <<0, 0>>
PosInf == <<1, 0>>
NegInf == <<-1, 0>>
Zero == <<0, 1>>
One == <<1, 1>>
Hundred == <<100, 1>>

Float(n) == <<n, 1>>

IsNaN(x) == x = NaN
IsFinite(x) == x[2] # 0

Abs(n) == IF n < 0 THEN -n ELSE n

RECURSIVE GCD(_, _)
GCD(a, b) == IF b = 0 THEN a ELSE GCD(b, a % b)

\* n/d with d > 0, in lowest terms
Norm(n, d) == LET g == GCD(Abs(n), d) IN <<n \div g, d \div g>>

FNeg(x) == <<-x[1], x[2]>>

FAdd(x, y) ==
    IF IsNaN(x) \/ IsNaN(y) THEN NaN
    ELSE IF ~IsFinite(x) /\ ~IsFinite(y) THEN (IF x = y THEN x ELSE NaN)
    ELSE IF ~IsFinite(x) THEN x
    ELSE IF ~IsFinite(y) THEN y
    ELSE LET g == GCD(x[2], y[2]) IN
         Norm(x[1] * (y[2] \div g) + y[1] * (x[2] \div g), (x[2] \div g) * y[2])

FSub(x, y) == FAdd(x, FNeg(y))

FMul(x, y) ==
    IF IsNaN(x) \/ IsNaN(y) THEN NaN
    ELSE IF ~IsFinite(x) \/ ~IsFinite(y)
         THEN (IF x[1] = 0 \/ y[1] = 0 THEN NaN
               ELSE IF (x[1] > 0) = (y[1] > 0) THEN PosInf ELSE NegInf)
    ELSE Norm(x[1] * y[1], x[2] * y[2])

FDiv(x, y) ==
    IF IsNaN(x) \/ IsNaN(y) THEN NaN
    ELSE IF ~IsFinite(x) /\ ~IsFinite(y) THEN NaN
    ELSE IF ~IsFinite(y) THEN Zero
    ELSE IF ~IsFinite(x) THEN (IF y[1] >= 0 THEN x ELSE FNeg(x))
    ELSE IF y[1] = 0
         THEN (IF x[1] = 0 THEN NaN ELSE IF x[1] > 0 THEN PosInf ELSE NegInf)
    ELSE IF y[1] > 0 THEN Norm(x[1] * y[2], x[2] * y[1])
    ELSE Norm(-(x[1] * y[2]), -(x[2] * y[1]))

\* x < y; false when either is NaN
FLt(x, y) ==
    /\ ~IsNaN(x)
    /\ ~IsNaN(y)
    /\ x # y
    /\ IF ~IsFinite(x) THEN x[1] < 0
       ELSE IF ~IsFinite(y) THEN y[1] > 0
       ELSE x[1] * y[2] < y[1] * x[2]

FGt(x, y) == FLt(y, x)

FLe(x, y) == FLt(x, y) \/ (~IsNaN(x) /\ x = y)

----------------------------------------------------------------------------
(* indicators.py: a pd.Series is a sequence; the label of position i is i - 1 *)

Max(a, b) == IF a > b THEN a ELSE b

\* series.diff()
diff(series) ==
    [i \in 1 .. Len(series) |->
        IF i = 1 THEN NaN ELSE FSub(series[i], series[i - 1])]

\* series > x and series < x, element by element
gt(series, x) == [i \in 1 .. Len(series) |-> FGt(series[i], x)]
lt(series, x) == [i \in 1 .. Len(series) |-> FLt(series[i], x)]

\* series.where(cond, other)
where(series, cond, other) ==
    [i \in 1 .. Len(series) |-> IF cond[i] THEN series[i] ELSE other]

\* -series
neg(series) == [i \in 1 .. Len(series) |-> FNeg(series[i])]

RECURSIVE SumObs(_, _, _)
\* the sum of the non-NaN observations at positions lo .. hi
SumObs(series, lo, hi) ==
    IF lo > hi THEN Zero
    ELSE IF lo = hi THEN (IF IsNaN(series[hi]) THEN Zero ELSE series[hi])
    ELSE LET mid == (lo + hi) \div 2 IN
         FAdd(SumObs(series, lo, mid), SumObs(series, mid + 1, hi))

\* series.rolling(window=window, min_periods=min_periods).mean()
rolling_mean(series, window, min_periods) ==
    [i \in 1 .. Len(series) |->
        LET lo  == Max(1, i - window + 1)
            obs == {j \in lo .. i : ~IsNaN(series[j])}
        IN IF Cardinality(obs) < min_periods THEN NaN
           ELSE FDiv(SumObs(series, lo, i), Float(Cardinality(obs)))]

\* series.replace({0: np.nan})
replace_zero(series) ==
    [i \in 1 .. Len(series) |-> IF series[i] = Zero THEN NaN ELSE series[i]]

\* 100 - (100 / (1 + rs))
RsiOf(rs) == [i \in 1 .. Len(rs) |-> FSub(Hundred, FDiv(Hundred, FAdd(One, rs[i])))]

\* _rsi dividing by the loss mean as it is, zero included
_rsi_NoReplace(series, window) ==
    LET delta == diff(series)
        gain  == rolling_mean(where(delta, gt(delta, Zero), Zero), window, window)
        loss  == rolling_mean(neg(where(delta, lt(delta, Zero), Zero)), window, window)
        rs    == [i \in 1 .. Len(series) |-> FDiv(gain[i], loss[i])]
    IN RsiOf(rs)

_rsi(series, window) ==
    LET delta == diff(series)
        gain  == rolling_mean(where(delta, gt(delta, Zero), Zero), window, window)
        loss  == rolling_mean(neg(where(delta, lt(delta, Zero), Zero)), window, window)
        zloss == replace_zero(loss)
        rs    == [i \in 1 .. Len(series) |-> FDiv(gain[i], zloss[i])]
    IN RsiOf(rs)

\* series.dropna().to_dict()
dropna_to_dict(series) ==
    [label \in {i - 1 : i \in {j \in 1 .. Len(series) : ~IsNaN(series[j])}} |->
        series[label + 1]]

RECURSIVE ewm_state(_, _, _)
\* the state of pandas' ewm mean (adjust=False, ignore_na=False) after position i:
\* the weighted average, the weight of the old average, the observations seen
ewm_state(series, alpha, i) ==
    IF i = 1
    THEN [weighted |-> series[1], old_wt |-> One,
          nobs |-> IF IsNaN(series[1]) THEN 0 ELSE 1]
    ELSE LET prev   == ewm_state(series, alpha, i - 1)
             cur    == series[i]
             is_obs == ~IsNaN(cur)
             nobs   == prev.nobs + (IF is_obs THEN 1 ELSE 0)
             old_wt == FMul(prev.old_wt, FSub(One, alpha))
         IN IF ~IsNaN(prev.weighted)
            THEN IF is_obs
                 THEN [weighted |->
                           IF prev.weighted # cur
                           THEN FDiv(FAdd(FMul(old_wt, prev.weighted), FMul(alpha, cur)),
                                     FAdd(old_wt, alpha))
                           ELSE prev.weighted,
                       old_wt |-> One, nobs |-> nobs]
                 ELSE [weighted |-> prev.weighted, old_wt |-> old_wt, nobs |-> nobs]
            ELSE [weighted |-> IF is_obs THEN cur ELSE prev.weighted,
                  old_wt |-> prev.old_wt, nobs |-> nobs]

\* series.ewm(span=span, adjust=False).mean()
_ema(series, span) ==
    LET alpha == FDiv(Float(2), Float(span + 1)) IN
    [i \in 1 .. Len(series) |->
        LET st == ewm_state(series, alpha, i) IN
        IF st.nobs >= 1 THEN st.weighted ELSE NaN]

\* series - other, element by element
sub(series, other) == [i \in 1 .. Len(series) |-> FSub(series[i], other[i])]

\* _macd with the histogram taken as signal - line
_macd_HistReversed(series, fast, slow, signal) ==
    LET ema_fast    == _ema(series, fast)
        ema_slow    == _ema(series, slow)
        macd_line   == sub(ema_fast, ema_slow)
        signal_line == _ema(macd_line, signal)
    IN [line |-> macd_line, signal |-> signal_line,
        hist |-> sub(signal_line, macd_line)]

_macd(series, fast, slow, signal) ==
    LET ema_fast    == _ema(series, fast)
        ema_slow    == _ema(series, slow)
        macd_line   == sub(ema_fast, ema_slow)
        signal_line == _ema(macd_line, signal)
    IN [line |-> macd_line, signal |-> signal_line,
        hist |-> sub(macd_line, signal_line)]

\* _sma defined from the first observation on (min_periods = 1)
_sma_MinPeriods1(series, window) == rolling_mean(series, window, 1)

_sma(series, window) == rolling_mean(series, window, window)

(* A number ma + k * sqrt(v), kept exact as <<ma, k, v>>; NaN stays NaN *)

\* sqrt(v)
Root(v) == IF IsNaN(v) THEN NaN ELSE <<Zero, One, v>>

\* k * r
Scale(k, r) ==
    IF IsNaN(k) \/ IsNaN(r) THEN NaN ELSE <<FMul(k, r[1]), FMul(k, r[2]), r[3]>>

\* x + r
Plus(x, r) == IF IsNaN(x) \/ IsNaN(r) THEN NaN ELSE <<FAdd(x, r[1]), r[2], r[3]>>

\* x - r
Minus(x, r) == Plus(x, Scale(Float(-1), r))

RECURSIVE SumSqDev(_, _, _, _)
\* the sum of (x - mean)^2 over the non-NaN observations at positions lo .. hi
SumSqDev(series, mean, lo, hi) ==
    IF lo > hi THEN Zero
    ELSE IF lo = hi
         THEN (IF IsNaN(series[hi]) THEN Zero
               ELSE FMul(FSub(series[hi], mean), FSub(series[hi], mean)))
    ELSE LET mid == (lo + hi) \div 2 IN
         FAdd(SumSqDev(series, mean, lo, mid), SumSqDev(series, mean, mid + 1, hi))

\* series.rolling(window=window, min_periods=min_periods).std(), ddof = 1
rolling_std(series, window, min_periods) ==
    [i \in 1 .. Len(series) |->
        LET lo   == Max(1, i - window + 1)
            nobs == Cardinality({j \in lo .. i : ~IsNaN(series[j])})
            mean == FDiv(SumObs(series, lo, i), Float(nobs))
        IN IF nobs < min_periods \/ nobs <= 1 THEN NaN
           ELSE Root(FDiv(SumSqDev(series, mean, lo, i), Float(nobs - 1)))]

\* _bollinger with the bands one standard deviation from the mean
_bollinger_OneStd(series, window, num_std) ==
    LET ma  == _sma(series, window)
        std == rolling_std(series, window, window)
    IN [ma    |-> ma,
        upper |-> [i \in 1 .. Len(series) |-> Plus(ma[i], std[i])],
        lower |-> [i \in 1 .. Len(series) |-> Minus(ma[i], std[i])]]

_bollinger(series, window, num_std) ==
    LET ma  == _sma(series, window)
        std == rolling_std(series, window, window)
    IN [ma    |-> ma,
        upper |-> [i \in 1 .. Len(series) |-> Plus(ma[i], Scale(num_std, std[i]))],
        lower |-> [i \in 1 .. Len(series) |-> Minus(ma[i], Scale(num_std, std[i]))]]

\* the keys compute_indicators writes for wants
OutKeys(wants) ==
    (IF "sma" \in wants THEN {"sma20", "sma50"} ELSE {})
    \cup (IF "ema" \in wants THEN {"ema12", "ema26"} ELSE {})
    \cup (IF "rsi" \in wants THEN {"rsi14"} ELSE {})
    \cup (IF "macd" \in wants THEN {"macd"} ELSE {})
    \cup (IF "boll" \in wants THEN {"bollinger"} ELSE {})

compute_indicators(series, wants) ==
    [name \in OutKeys(wants) |->
        CASE name = "sma20" -> dropna_to_dict(_sma(series, 20))
          [] name = "sma50" -> dropna_to_dict(_sma(series, 50))
          [] name = "ema12" -> dropna_to_dict(_ema(series, 12))
          [] name = "ema26" -> dropna_to_dict(_ema(series, 26))
          [] name = "macd"  ->
               LET m == _macd(series, 12, 26, 9) IN
               [line   |-> dropna_to_dict(m.line),
                signal |-> dropna_to_dict(m.signal),
                hist   |-> dropna_to_dict(m.hist)]
          [] name = "bollinger" ->
               LET b == _bollinger(series, 20, Float(2)) IN
               [ma    |-> dropna_to_dict(b.ma),
                upper |-> dropna_to_dict(b.upper),
                lower |-> dropna_to_dict(b.lower)]
          [] OTHER          -> dropna_to_dict(_rsi(series, 14))]

\* the steps from one close to the next
Steps == {-1, 0, 2}

\* the indicators query parameter: absent (None), or a string, kept as the
\* pieces that indicators.split(",") gives
NoQuery == [present |-> FALSE, pieces |-> <<>>]
Query(pieces) == [present |-> TRUE, pieces |-> pieces]

\* x.strip().lower()
StripLower(piece) ==
    CASE piece \in {"", " "} -> ""
      [] piece = " RSI "     -> "rsi"
      [] OTHER               -> piece

\* bool(indicators): the parameter is given and is not the empty string
Truthy(indicators) == indicators.present /\ indicators.pieces # <<"">>

\* [x.strip().lower() for x in indicators.split(",") if x.strip()], as a set
ParseWants(indicators) ==
    {StripLower(indicators.pieces[i]) : i \in DOMAIN indicators.pieces} \ {""}

\* the queries a request makes: none, "", ",", " , ", "bogus", " RSI ,bogus"
Queries ==
    {NoQuery, Query(<<"">>), Query(<<"", "">>), Query(<<" ", " ">>),
     Query(<<"bogus">>), Query(<<" RSI ", "bogus">>)}

\* the query a request makes on a short series
ShortQueries == {Query(<<"ema", "macd">>)}

\* the queries a request makes on a long series
LongQueries == {Query(<<"sma">>), Query(<<"sma", "boll">>)}

NotComputed == [computed |-> FALSE, wants |-> {}, none |-> TRUE, out |-> <<>>]

IndInit ==
    /\ close = <<>>
    /\ gen = [last |-> BasePrice, run |-> "start", turns |-> 0]
    /\ ind_out = NotComputed

indFrame == <<CACHE_TTL_SECONDS, now, histVars, cacheVars, concVars, restVars>>

\* a run goes on, or another begins
Turn(run) == IF gen.run \in {"start", run} THEN gen.turns ELSE gen.turns + 1

\* the upstream gives one more row, its close a step from the last real close
AppendClose(step) ==
    LET run == IF step < 0 THEN "down" ELSE IF step = 0 THEN "flat" ELSE "up"
        c   == IF \A i \in 1 .. Len(close) : IsNaN(close[i])
               THEN BasePrice ELSE gen.last + step
    IN
    /\ Len(close) < MaxLen
    /\ Turn(run) <= MaxTurns
    /\ c > 0
    /\ close' = Append(close, Float(c))
    /\ gen' = [last |-> c, run |-> run, turns |-> Turn(run)]
    /\ ind_out' = NotComputed
    /\ UNCHANGED indFrame

\* the upstream gives one more row, its close missing
AppendMissing ==
    /\ Len(close) < MaxLen
    /\ Turn("missing") <= MaxTurns
    /\ close' = Append(close, NaN)
    /\ gen' = [gen EXCEPT !.run = "missing", !.turns = Turn("missing")]
    /\ ind_out' = NotComputed
    /\ UNCHANGED indFrame

\* the upstream gives RunLen more rows, each close a step from the one before
AppendRun(step) ==
    LET run == IF step < 0 THEN "down" ELSE IF step = 0 THEN "flat" ELSE "up"
        c0  == IF close = <<>> THEN BasePrice - step ELSE gen.last
    IN
    /\ Len(close) + RunLen <= MaxLong
    /\ Turn(run) <= MaxTurns
    /\ c0 + RunLen * step > 0
    /\ close' = close \o [i \in 1 .. RunLen |-> Float(c0 + i * step)]
    /\ gen' = [last |-> c0 + RunLen * step, run |-> run, turns |-> Turn(run)]
    /\ ind_out' = NotComputed
    /\ UNCHANGED indFrame

\* get_history lines 349-352: ind_out = None, and compute_indicators(df[["close",
\* "volume"]]..., wants) when the indicators parameter is truthy; called once on
\* each series drawn
ComputeIndicators(indicators) ==
    LET wants == ParseWants(indicators) IN
    /\ close # <<>>
    /\ ~ind_out.computed
    /\ wants \cap {"ema", "macd"} # {} => Len(close) <= MaxEmaLen
    /\ ind_out' = IF Truthy(indicators)
                  THEN [computed |-> TRUE, wants |-> wants, none |-> FALSE,
                        out |-> compute_indicators(close, wants)]
                  ELSE [computed |-> TRUE, wants |-> {}, none |-> TRUE, out |-> <<>>]
    /\ UNCHANGED <<close, gen, indFrame>>

----------------------------------------------------------------------------
(* get_history lines 337-347: the candles, their volume sanitized *)

\* what row.get("volume") can be: absent, a string, or a float
RawNone == [kind |-> "none", text |-> "", num |-> NaN]
RawText(text) == [kind |-> "text", text |-> text, num |-> NaN]
RawNum(x) == [kind |-> "num", text |-> "", num |-> x]

RawVolumes ==
    {RawNone, RawText("n/a"), RawText("12"),
     RawNum(NaN), RawNum(PosInf), RawNum(NegInf), RawNum(Zero), RawNum(Float(1000))}

NoFloat == [ok |-> FALSE, num |-> NaN]

\* float(value) succeeds on the string
ParsesAsFloat(text) == text = "12"

\* _to_float: float(value), or None on TypeError / ValueError
_to_float(value) ==
    CASE value.kind = "none" -> NoFloat
      [] value.kind = "text" ->
           IF ParsesAsFloat(value.text) THEN [ok |-> TRUE, num |-> Float(12)]
           ELSE NoFloat
      [] OTHER -> [ok |-> TRUE, num |-> value.num]

_sanitize_volume(value) ==
    LET volume == _to_float(value) IN
    IF ~volume.ok THEN Zero
    ELSE IF IsNaN(volume.num) THEN Zero
    ELSE volume.num

CandleInit ==
    /\ volumes = <<>>
    /\ candles = <<>>

candleFrame == <<CACHE_TTL_SECONDS, now, histVars, cacheVars, concVars, indVars, quoteVars,
                 copyVars>>

\* the frame has one more row
AppendRow(value) ==
    /\ Len(volumes) < MaxRows
    /\ volumes' = Append(volumes, value)
    /\ candles' = <<>>
    /\ UNCHANGED candleFrame

\* the list comprehension of lines 337-347
BuildCandles ==
    /\ volumes # <<>>
    /\ candles = <<>>
    /\ candles' = [i \in 1 .. Len(volumes) |-> _sanitize_volume(volumes[i])]
    /\ UNCHANGED <<volumes, candleFrame>>

----------------------------------------------------------------------------
(* get_quote *)

QuoteTickers == {"aapl", "MSFT"}

\* t.fast_info and t.info: the property raises, is empty, or carries its fields
Lookups == {"raise", "empty", "fields"}

\* t.history(period="5d", ...): raises, is empty, or has rows
Histories == {"raise", "empty", "rows"}

\* lines 253-260: a lookup that raised counts as an empty one
Fields(lookup) == lookup = "fields"

\* lines 263-270: fast_info first, then info
FromLookups(fast, info) ==
    IF Fields(fast) THEN "fast_info"
    ELSE IF Fields(info) THEN "info"
    ELSE None

\* lines 273-286: a price still missing is read from the last row of history,
\* and a fault of history is swallowed
Price(fast, info, hist) ==
    IF FromLookups(fast, info) # None THEN FromLookups(fast, info)
    ELSE IF hist = "rows" THEN "history"
    ELSE None

\* lines 296-303: the fundamentals come from info alone
MarketCap(info) == IF Fields(info) THEN "info" ELSE None

\* response.dict(): the snapshot, named by where its prices and fundamentals came from
QuoteResponse(price, marketCap) ==
    CASE price = None /\ marketCap = None -> "all-None"
      [] price = "history" /\ marketCap = None -> "prices:history"
      [] price = "fast_info" /\ marketCap = None -> "prices:fast_info"
      [] price = "fast_info" /\ marketCap = "info" -> "prices:fast_info,fundamentals:info"
      [] OTHER -> "prices:info,fundamentals:info"

AllNone == QuoteResponse(None, None)

\* the upstream lookups a request that missed the cache makes
UpstreamCalls(fast, info) ==
    IF FromLookups(fast, info) = None
    THEN {"fast_info", "info", "history"}
    ELSE {"fast_info", "info"}

NoQuote == [symbol |-> None, response |-> None, calls |-> {}, all_failed |-> FALSE]

QuoteInit == quote = NoQuote

\* get_quote, lines 243-306
GetQuote(ticker, fast, info, hist) ==
    LET symbol == Upper(ticker)
        cached == _cache_get(_quote_cache, symbol, now)
        looked == _cache_get_store(_quote_cache, symbol, now)
        snapshot == QuoteResponse(Price(fast, info, hist), MarketCap(info))
    IN
    /\ IF cached # None
       THEN /\ quote' = [symbol |-> symbol, response |-> cached, calls |-> {},
                         all_failed |-> FALSE]
            /\ _quote_cache' = looked
       ELSE /\ quote' = [symbol |-> symbol, response |-> snapshot,
                         calls |-> UpstreamCalls(fast, info),
                         all_failed |-> ~Fields(fast) /\ ~Fields(info) /\ hist # "rows"]
            /\ _quote_cache' = _cache_set(looked, symbol, snapshot, now)
    /\ UNCHANGED <<CACHE_TTL_SECONDS, now, last_set, last_get, histVars, concVars,
                   indVars, candleVars, copyVars>>

----------------------------------------------------------------------------
(* get_history, lines 317-335: the DataFrame objects of a request and of the cache *)

Objects == {"o1", "o2", "o3", "o4"}

CopyKeys == {<<"AAPL", "1y", "1d">>, <<"AAPL", "5d", "1d">>}

\* what a successful fetch may return: yf.download gives MultiIndex columns,
\* ticker.history a flat Index; neither is lower-cased or converted yet
FetchedFrames ==
    [data : Frames, columns : {"MultiIndex", "Index"}, lower : {FALSE}, index : {"raw"}]

\* a fresh object
Alloc(h) == CHOOSE o \in Objects : o \notin DOMAIN h

\* the heap with one more object of the given content
New(h, content) ==
    [o \in (DOMAIN h) \cup {Alloc(h)} |-> IF o = Alloc(h) THEN content ELSE h[o]]

\* the objects an entry of the store or the request refers to
Live(store, request) ==
    {store[key][2] : key \in DOMAIN store} \cup
    (IF request.pc = "idle" THEN {} ELSE {request.df})

\* objects nothing refers to are freed
Release(h, live) == [o \in (DOMAIN h) \cap live |-> h[o]]

Idle == [pc |-> "idle", key |-> <<>>, df |-> None, hit |-> FALSE]

copyFrame == <<CACHE_TTL_SECONDS, now, pc, cache_key, attempt, last_error, rate_limited,
               df, result, response, events, last_outcome, last_raised, last_raised_at,
               rl_raised, evicted, cacheVars, concVars, indVars, candleVars, quoteVars>>

CopyInit ==
    /\ heap = <<>>
    /\ work = Idle
    /\ origin = <<>>

\* lines 317-329 with the fetched frame stored itself and the cached one handed out
Lookup_NoCopy(key, fetched) ==
    LET cached == _cache_get(_history_cache, key, now)
        looked == _cache_get_store(_history_cache, key, now)
    IN
    /\ work.pc = "idle"
    /\ IF cached # None
       THEN /\ work' = [pc |-> "flatten", key |-> key, df |-> cached, hit |-> TRUE]
            /\ _history_cache' = looked
            /\ heap' = Release(heap, Live(looked, work'))
            /\ origin' = origin
       ELSE LET h1 == New(heap, fetched)
                stored == _cache_set(looked, key, Alloc(heap), now)
            IN
            /\ work' = [pc |-> "flatten", key |-> key, df |-> Alloc(heap), hit |-> FALSE]
            /\ _history_cache' = stored
            /\ heap' = Release(h1, Live(stored, work'))
            /\ origin' = [k \in DOMAIN stored |-> IF k = key THEN fetched ELSE origin[k]]
    /\ UNCHANGED copyFrame

\* lines 317-329 of a request whose fetch, if it needs one, returns a series:
\* a hit works on cached_df.copy(), a miss stores df.copy()
Lookup(key, fetched) ==
    LET cached == _cache_get(_history_cache, key, now)
        looked == _cache_get_store(_history_cache, key, now)
    IN
    /\ work.pc = "idle"
    /\ IF cached # None
       THEN LET h1 == New(heap, heap[cached]) IN
            /\ work' = [pc |-> "flatten", key |-> key, df |-> Alloc(heap), hit |-> TRUE]
            /\ _history_cache' = looked
            /\ heap' = Release(h1, Live(looked, work'))
            /\ origin' = origin
       ELSE LET h1 == New(heap, fetched)
                h2 == New(h1, h1[Alloc(heap)])
                stored == _cache_set(looked, key, Alloc(h1), now)
            IN
            /\ work' = [pc |-> "flatten", key |-> key, df |-> Alloc(heap), hit |-> FALSE]
            /\ _history_cache' = stored
            /\ heap' = Release(h2, Live(stored, work'))
            /\ origin' = [k \in DOMAIN stored |-> IF k = key THEN fetched ELSE origin[k]]
    /\ UNCHANGED copyFrame

\* lines 331-332: df.columns is assigned in place
Flatten ==
    /\ work.pc = "flatten"
    /\ heap' = [heap EXCEPT ![work.df].columns = "Index"]
    /\ work' = [work EXCEPT !.pc = "rename"]
    /\ UNCHANGED <<_history_cache, origin, copyFrame>>

\* line 334: df.rename returns another object, the one it was called on is dropped
Rename ==
    LET h1 == New(heap, [heap[work.df] EXCEPT !.lower = TRUE]) IN
    /\ work.pc = "rename"
    /\ work' = [work EXCEPT !.pc = "index", !.df = Alloc(heap)]
    /\ heap' = Release(h1, Live(_history_cache, work'))
    /\ UNCHANGED <<_history_cache, origin, copyFrame>>

\* line 335: df.index is assigned in place
ToDatetime ==
    /\ work.pc = "index"
    /\ heap' = [heap EXCEPT ![work.df].index = "datetime"]
    /\ work' = [work EXCEPT !.pc = "candles"]
    /\ UNCHANGED <<_history_cache, origin, copyFrame>>

\* lines 337-354: the answer is built from df and the request ends
BuildResponse ==
    /\ work.pc = "candles"
    /\ work' = Idle
    /\ heap' = Release(heap, Live(_history_cache, work'))
    /\ UNCHANGED <<_history_cache, origin, copyFrame>>

----------------------------------------------------------------------------
(* Specifications *)

RestInit == CandleInit /\ QuoteInit /\ CopyInit

Init ==
    /\ CACHE_TTL_SECONDS \in -1 .. MaxTTL
    /\ now = 0
    /\ HistInit
    /\ CacheInit
    /\ ConcInit
    /\ IndInit
    /\ RestInit

Next ==
    \/ Tick
    \/ \E ticker \in Tickers, period \in Periods, interval \in Intervals :
          GetHistory(ticker, period, interval)
    \/ \E outcome \in Outcomes : YfDownload(outcome)
    \/ SleepDownload
    \/ \E outcome \in Outcomes : TickerHistory(outcome)
    \/ SleepHistory
    \/ Finish

Spec == Init /\ [][Next]_vars

\* a step of the request in flight: _download_history is sequential code, every
\* upstream call returns or raises and every sleep ends
FetchStep ==
    \/ \E outcome \in Outcomes : YfDownload(outcome)
    \/ SleepDownload
    \/ \E outcome \in Outcomes : TickerHistory(outcome)
    \/ SleepHistory
    \/ Finish

\* requests against a clock that stands still: the retry loops never read it
FetchNext ==
    \/ \E ticker \in Tickers, period \in Periods, interval \in Intervals :
          GetHistory(ticker, period, interval)
    \/ FetchStep

FairSpec == Init /\ [][FetchNext]_vars /\ WF_vars(FetchStep)

CacheNext ==
    \/ Tick
    \/ \E key \in CacheKeys : CacheGet(key)
    \/ \E key \in CacheKeys, value \in CacheValues : CacheSet(key, value)

CacheSpec == Init /\ [][CacheNext]_vars

\* the _quote_cache holds what an earlier request set at time 0, or nothing
ConcStart ==
    /\ CACHE_TTL_SECONDS \in -1 .. MaxTTL
    /\ now = 0
    /\ HistInit
    /\ last_set = EmptyStore
    /\ last_get = NoGet
    /\ thr = [t \in Threads |-> Ready]
    /\ _quote_cache \in {EmptyStore, _cache_set(EmptyStore, "AAPL", "q0", 0)}
    /\ store0 = _quote_cache
    /\ popped = {}
    /\ written = {_quote_cache[k] : k \in DOMAIN _quote_cache}
    /\ IndInit
    /\ RestInit

ConcNext ==
    \/ Tick
    \/ \E t \in Threads, key \in CacheKeys : GetCall(t, key)
    \/ \E t \in Threads : GetRead(t)
    \/ \E t \in Threads : GetCheck(t)
    \/ \E t \in Threads : GetPop(t)
    \/ \E t \in Threads, key \in CacheKeys, value \in CacheValues : SetCall(t, key, value)
    \/ \E t \in Threads : SetEntry(t)
    \/ \E t \in Threads : SetStore(t)

ConcSpec == ConcStart /\ [][ConcNext]_vars

\* the process is configured as by default and serves no request
IndStart ==
    /\ CACHE_TTL_SECONDS = 300
    /\ now = 0
    /\ HistInit
    /\ CacheInit
    /\ ConcInit
    /\ IndInit
    /\ RestInit

IndNext ==
    \/ \E step \in Steps : AppendClose(step)
    \/ AppendMissing
    \/ \E indicators \in Queries \cup ShortQueries : ComputeIndicators(indicators)

IndSpec == IndStart /\ [][IndNext]_vars

LongNext ==
    \/ \E step \in Steps : AppendRun(step)
    \/ \E indicators \in LongQueries : ComputeIndicators(indicators)

LongSpec == IndStart /\ [][LongNext]_vars

CandleNext ==
    \/ \E value \in RawVolumes : AppendRow(value)
    \/ BuildCandles

CandleSpec == IndStart /\ [][CandleNext]_vars

QuoteNext ==
    \/ Tick
    \/ \E ticker \in QuoteTickers, fast \in Lookups, info \in Lookups, hist \in Histories :
           GetQuote(ticker, fast, info, hist)

QuoteSpec == Init /\ [][QuoteNext]_vars

CopyNext ==
    \/ Tick
    \/ \E key \in CopyKeys, fetched \in FetchedFrames : Lookup(key, fetched)
    \/ Flatten
    \/ Rename
    \/ ToDatetime
    \/ BuildResponse

CopySpec == Init /\ [][CopyNext]_vars

----------------------------------------------------------------------------
(* Properties of the fetch and of get_history, checked under Spec *)

CallIndices == {i \in 1 .. Len(events) : events[i].ev = "call"}

NoFrameSeen == \A i \in CallIndices : ~events[i].ok

\* the fetch ran out of attempts and the request was answered
Exhausted == pc = "idle" /\ result \in {"UpstreamRateLimitError", "raise", "empty"}

\* C1: when no attempt yields a non-empty series, the fetch ends in RateLimited
\* (and get_history answers 429) exactly when some raised fault was classified
\* rate-limited, wherever in the sequence it was raised.
C1_RateLimitPrecedence ==
    /\ pc = "exhausted" =>
          ((DownloadResult = "UpstreamRateLimitError") <=> rl_raised)
    /\ Exhausted =>
          /\ (result = "UpstreamRateLimitError") <=> rl_raised
          /\ (response.status = 429) <=> rl_raised

\* a rate-limited fault was followed by a later fault that is not rate-limited
C1_Witness ==
    /\ Exhausted
    /\ NoFrameSeen
    /\ result = "UpstreamRateLimitError"
    /\ last_raised # None
    /\ ~_is_rate_limited_error(last_raised)

\* C2: a call that gives a non-empty series is the last upstream call of the
\* request: the fetch returns that series, and a success on yf.download leaves
\* ticker.history uncalled.
C2_ShortCircuit ==
    \A i \in CallIndices :
        events[i].ok =>
            /\ i = Len(events)
            /\ pc \in {"return", "idle"}
            /\ last_outcome \in Frames
            /\ df = last_outcome
            /\ pc = "idle" =>
                  /\ result = "df"
                  /\ response = [status |-> 200, body |-> last_outcome, detail |-> None]
            /\ events[i].path = "yf.download" =>
                  \A j \in CallIndices : events[j].path = "yf.download"

\* the second yf.download attempt succeeded after the first raised a fault
C2_Witness ==
    /\ pc = "idle"
    /\ result = "df"
    /\ Len(events) = 3
    /\ last_raised_at = 1
    /\ events[3] = Call("yf.download", 2, TRUE)

\* C3: six empty results and no fault end in NotFound (404), and the key of
\* the request has no cache entry.
C3_AllEmptyNotFound ==
    (/\ pc = "idle"
     /\ Cardinality(CallIndices) = 6
     /\ NoFrameSeen
     /\ last_raised = None)
    => /\ result = "empty"
       /\ response = [status |-> 404, body |-> None, detail |-> None]
       /\ cache_key \notin DOMAIN _history_cache

C3_Witness ==
    /\ pc = "idle"
    /\ Cardinality(CallIndices) = 6
    /\ NoFrameSeen
    /\ last_raised = None
    /\ response.status = 404

\* C4: with no non-empty series, some fault and no rate-limited fault, the fetch
\* raises the chronologically last fault (503 carrying it), also when only empty
\* results followed that fault.
C4_LastFaultPropagates ==
    (Exhausted /\ last_raised # None /\ ~rl_raised)
    => /\ result = "raise"
       /\ response = [status |-> 503, body |-> None, detail |-> last_raised]

\* the first yf.download call raised; the five calls after it gave empty results
C4_Witness ==
    /\ Exhausted
    /\ result = "raise"
    /\ last_raised_at = 1
    /\ Cardinality(CallIndices) = 6
    /\ last_outcome \in {None, EmptyFrame}
    /\ response.detail = last_raised

HasUnexpired(key) ==
    key \in DOMAIN _history_cache /\ _history_cache[key][1] > now

\* a request whose key has an unexpired entry answers from it with no upstream call
HitSkipsUpstream ==
    \A ticker \in Tickers, period \in Periods, interval \in Intervals :
        LET key == <<Upper(ticker), period, interval>> IN
        (GetHistory(ticker, period, interval) /\ HasUnexpired(key))
        => /\ pc' = "idle"
           /\ events' = <<>>
           /\ response' = [status |-> 200, body |-> _history_cache[key][2],
                           detail |-> None]
           /\ _history_cache' = _history_cache

\* a request whose fetch succeeded answers with the series and leaves it under
\* the key, where a lookup finds it at every time within the TTL
MissStores ==
    (pc = "return" /\ pc' = "idle")
    => /\ response' = [status |-> 200, body |-> df, detail |-> None]
       /\ \A t \in now .. now + MaxTTL :
              t - now < CACHE_TTL_SECONDS
              => _cache_get(_history_cache', cache_key, t) = df

\* an entry stays as it was stored for as long as it is unexpired
EntryKept ==
    \A key \in DOMAIN _history_cache :
        _history_cache[key][1] > now'
        => /\ key \in DOMAIN _history_cache'
           /\ _history_cache'[key] = _history_cache[key]

\* C5: a request whose key has an unexpired history-cache entry makes no upstream
\* call and answers from the cached series; a request that misses and whose fetch
\* succeeds stores the series under the key before responding, so that a following
\* request for the key within the TTL makes no upstream call.
C5_CacheInterposition == [][HitSkipsUpstream /\ MissStores /\ EntryKept]_vars

\* a request was answered, with no upstream call, from the entry that an earlier
\* request stored one second before
C5_Witness ==
    /\ pc = "idle"
    /\ result = "cached"
    /\ events = <<>>
    /\ response.status = 200
    /\ cache_key \in DOMAIN _history_cache
    /\ response.body = _history_cache[cache_key][2]
    /\ _history_cache[cache_key][1] = now - 1 + CACHE_TTL_SECONDS

\* C7: with TTL <= 0 the store stays empty, every lookup is absent, and every
\* request that was answered went to the upstream.
C7_TtlDisabled ==
    CACHE_TTL_SECONDS <= 0 =>
        /\ _history_cache = EmptyStore
        /\ result # "cached"
        /\ \A ticker \in Tickers, period \in Periods, interval \in Intervals :
              _cache_get(_history_cache, <<Upper(ticker), period, interval>>, now) = None
        /\ (pc = "idle" /\ cache_key # <<>>) =>
              /\ Len(events) >= 1
              /\ events[1].ev = "call"

\* a fetch succeeded (so _cache_set was called) with caching disabled
C7_Witness ==
    /\ CACHE_TTL_SECONDS <= 0
    /\ pc = "idle"
    /\ result = "df"
    /\ response.status = 200

----------------------------------------------------------------------------
(* Properties of the TTL cache, checked under CacheSpec *)

\* C6: with TTL > 0, a get at time t returns the value of the key's latest set
\* (made at time s) when t - s < TTL; otherwise it reports absent and the key is
\* no longer in the store; a value is only ever returned before its expires_at.
C6_GetAfterSet ==
    (CACHE_TTL_SECONDS > 0 /\ last_get # NoGet) =>
        LET key == last_get.key
            t   == last_get.t
        IN
        /\ IF key \in DOMAIN last_set /\ t - last_set[key][1] < CACHE_TTL_SECONDS
           THEN /\ last_get.value = last_set[key][2]
                /\ key \in DOMAIN _quote_cache
                /\ _quote_cache[key] = <<last_set[key][1] + CACHE_TTL_SECONDS,
                                         last_set[key][2]>>
           ELSE /\ last_get.value = None
                /\ key \notin DOMAIN _quote_cache
        /\ last_get.value # None =>
              (last_get.found /\ last_get.t < last_get.expires_at)

\* a get exactly TTL seconds after the set found the entry, reported absent and
\* removed it
C6_Witness ==
    /\ CACHE_TTL_SECONDS > 0
    /\ last_get # NoGet
    /\ last_get.key \in DOMAIN last_set
    /\ last_get.t - last_set[last_get.key][1] = CACHE_TTL_SECONDS
    /\ last_get.found
    /\ last_get.value = None
    /\ last_get.key \notin DOMAIN _quote_cache

----------------------------------------------------------------------------
(* Properties of the TTL cache under concurrent calls, checked under ConcSpec *)

AllDone == \A t \in Threads : thr[t].pc = "done"

\* the orders in which the threads' calls can be put one after the other
Orders ==
    {o \in [1 .. Cardinality(Threads) -> Threads] :
        \A i, j \in DOMAIN o : i # j => o[i] # o[j]}

RECURSIVE SerialStore(_, _)
\* the store after the first i calls of the order, each run as a whole with the
\* clock reading it took
SerialStore(order, i) ==
    IF i = 0 THEN store0
    ELSE LET t    == order[i]
             prev == SerialStore(order, i - 1)
         IN IF thr[t].op = "get"
            THEN _cache_get_store(prev, thr[t].key, thr[t].t)
            ELSE _cache_set(prev, thr[t].key, thr[t].value, thr[t].t)

\* what the i-th call of the order returns when run as a whole
SerialReturn(order, i) ==
    LET t == order[i] IN
    IF thr[t].op = "get"
    THEN _cache_get(SerialStore(order, i - 1), thr[t].key, thr[t].t)
    ELSE None

Serializable ==
    \E order \in Orders :
        /\ \A i \in DOMAIN order : thr[order[i]].ret = SerialReturn(order, i)
        /\ _quote_cache = SerialStore(order, Cardinality(Threads))

\* a get judges the expiry and returns the value of one and the same set
NoTornRead ==
    \A t \in Threads :
        (thr[t].op = "get" /\ thr[t].found) =>
            <<thr[t].expires_at, thr[t].entry_value>> \in written

\* every entry a get evicted was expired when it was removed
NoFreshEntryEvicted == \A p \in popped : p[1] <= p[2]

\* C8: concurrent _cache_get / _cache_set calls behave as if run one after the
\* other: no torn read, no eviction of an unexpired entry, and the results and the
\* final store are those of some serial order.
C8_CacheCallsAtomic ==
    /\ NoTornRead
    /\ NoFreshEntryEvicted
    /\ AllDone => Serializable

----------------------------------------------------------------------------
(* Properties of the RSI branch of compute_indicators, under IndSpec *)

HasRsi == ind_out.computed /\ "rsi14" \in DOMAIN ind_out.out

\* C9: the rsi14 mapping returned by compute_indicators has no point for any of
\* the first 14 observations (indices 0..13); index 14 is the earliest that can
\* carry an RSI value
C9_FirstWindowOmitted ==
    HasRsi => \A i \in DOMAIN ind_out.out["rsi14"] : i >= 14

\* the observation labelled i closed below the one before it
IsLoss(i) ==
    /\ i >= 1
    /\ FLt(close[i + 1], close[i])

\* some delta among the 14 that end at label i is a loss
TrailingLoss(i) == \E j \in Max(1, i - 13) .. i : IsLoss(j)

StrictlyIncreasing == \A i \in 2 .. Len(close) : FLt(close[i - 1], close[i])

Constant == \A i \in 2 .. Len(close) : ~IsNaN(close[i]) /\ close[i - 1] = close[i]

\* C10: a point whose trailing 14-delta mean loss is exactly zero is omitted from
\* rsi14 rather than reported as 100 or any other number; so a strictly increasing
\* or constant close series has no rsi14 point at all, and every point present
\* satisfies 0 <= RSI < 100
C10_ZeroLossOmitted ==
    HasRsi =>
        LET rsi14 == ind_out.out["rsi14"] IN
        /\ \A i \in 0 .. Len(close) - 1 : ~TrailingLoss(i) => i \notin DOMAIN rsi14
        /\ (StrictlyIncreasing \/ Constant) => DOMAIN rsi14 = {}
        /\ \A i \in DOMAIN rsi14 :
               /\ IsFinite(rsi14[i])
               /\ FLe(Zero, rsi14[i])
               /\ FLt(rsi14[i], Hundred)

\* a series with a full window of deltas free of loss, its point omitted, next to
\* a window with gains and losses, its point strictly between 0 and 100
C10_Witness ==
    /\ HasRsi
    /\ \E i \in 13 .. Len(close) - 1 :
           ~TrailingLoss(i) /\ i \notin DOMAIN ind_out.out["rsi14"]
    /\ \E k \in DOMAIN ind_out.out["rsi14"] :
           /\ FLt(Zero, ind_out.out["rsi14"][k])
           /\ FLt(ind_out.out["rsi14"][k], Hundred)

----------------------------------------------------------------------------
(* Properties of the SMA branch of compute_indicators, under LongSpec *)

HasSma == ind_out.computed /\ "sma" \in ind_out.wants

AllReal == \A i \in 1 .. Len(close) : IsFinite(close[i])

RECURSIVE CloseSum(_, _)
\* the sum of the closes labelled lo .. hi, each a whole number
CloseSum(lo, hi) ==
    IF lo > hi THEN 0
    ELSE IF lo = hi THEN close[hi + 1][1]
    ELSE LET mid == (lo + hi) \div 2 IN CloseSum(lo, mid) + CloseSum(mid + 1, hi)

\* mapping has exactly the labels window-1 .. n-1, each carrying the arithmetic
\* mean of the window closes that end there
IsTrailingMean(mapping, window) ==
    /\ DOMAIN mapping = window - 1 .. Len(close) - 1
    /\ \A i \in DOMAIN mapping :
           /\ mapping[i][2] > 0
           /\ mapping[i][1] * window = mapping[i][2] * CloseSum(i - window + 1, i)

\* C11: for n real closes, sma20 has exactly the indices 19..n-1 (none when
\* n < 20), each the arithmetic mean of closes i-19..i; a 25-point constant series
\* of value v gives exactly 6 points, indices 19..24, each equal to v; the same
\* holds for sma50 with window 50
C11_SmaBoundary ==
    (HasSma /\ AllReal) =>
        /\ {"sma20", "sma50"} \subseteq DOMAIN ind_out.out
        /\ IsTrailingMean(ind_out.out["sma20"], 20)
        /\ IsTrailingMean(ind_out.out["sma50"], 50)
        /\ (Len(close) = 25 /\ \A i \in 1 .. 25 : close[i] = close[1]) =>
               /\ Cardinality(DOMAIN ind_out.out["sma20"]) = 6
               /\ \A i \in 19 .. 24 : ind_out.out["sma20"][i] = close[1]

\* a series long enough for both windows, with a turn inside them
C11_Witness ==
    /\ HasSma
    /\ AllReal
    /\ gen.turns > 0
    /\ DOMAIN ind_out.out["sma20"] = 19 .. Len(close) - 1
    /\ Cardinality(DOMAIN ind_out.out["sma50"]) > 1
    /\ \E i \in DOMAIN ind_out.out["sma50"] :
           ind_out.out["sma50"][i] # ind_out.out["sma20"][i]

----------------------------------------------------------------------------
(* Properties of the indicators parameter of get_history, under IndSpec *)

Recognized == {"sma", "ema", "rsi", "macd", "boll"}

\* C12: a request with an empty indicator set (no indicators parameter, an empty
\* string, or only separators and blanks) or with unrecognized tokens only gets
\* an empty mapping as its indicator result, never an absent (null) one
C12_EmptySetEmptyMapping ==
    (ind_out.computed /\ ind_out.wants \cap Recognized = {})
    => /\ ~ind_out.none
       /\ ind_out.out = <<>>

----------------------------------------------------------------------------
(* Properties of the candles' volume, under CandleSpec *)

\* C13: whatever the raw volume of a row - absent, not convertible to a number,
\* NaN, +infinity, -infinity or a finite number - the candle's volume is 0.0 when
\* the raw value is absent, NaN or non-finite and the raw number otherwise; no
\* candle carries a NaN or infinite volume
C13_VolumeNormalized ==
    \A i \in 1 .. Len(candles) :
        /\ IsFinite(candles[i])
        /\ IF volumes[i].kind = "num" /\ IsFinite(volumes[i].num)
           THEN candles[i] = volumes[i].num
           ELSE IF volumes[i].kind = "text" /\ ParsesAsFloat(volumes[i].text)
           THEN candles[i] = Float(12)
           ELSE candles[i] = Zero

----------------------------------------------------------------------------
(* Properties of the MACD branch of compute_indicators, under IndSpec *)

HasMacd == ind_out.computed /\ "macd" \in ind_out.wants

NoNaNIn(mapping) == \A t \in DOMAIN mapping : ~IsNaN(mapping[t])

\* C14: the line, signal and hist mappings of macd hold defined points only; at
\* every timestamp present in all three hist = line - signal exactly; and for a
\* series with no missing close all three are defined at every timestamp
C14_MacdConsistent ==
    HasMacd =>
        LET m == ind_out.out["macd"] IN
        /\ NoNaNIn(m.line) /\ NoNaNIn(m.signal) /\ NoNaNIn(m.hist)
        /\ \A t \in DOMAIN m.line \cap DOMAIN m.signal \cap DOMAIN m.hist :
               m.hist[t] = FSub(m.line[t], m.signal[t])
        /\ AllReal =>
               /\ DOMAIN m.line = 0 .. Len(close) - 1
               /\ DOMAIN m.signal = 0 .. Len(close) - 1
               /\ DOMAIN m.hist = 0 .. Len(close) - 1

\* two real closes that differ: the second point has a histogram away from zero
C14_Witness ==
    /\ HasMacd
    /\ AllReal
    /\ Len(close) >= 2
    /\ 1 \in DOMAIN ind_out.out["macd"].hist
    /\ ind_out.out["macd"].hist[1] # Zero
    /\ ind_out.out["macd"].line[1] # ind_out.out["macd"].signal[1]

----------------------------------------------------------------------------
(* Properties of the Bollinger branch of compute_indicators, under LongSpec *)

HasBoll == ind_out.computed /\ {"sma", "boll"} \subseteq ind_out.wants

RECURSIVE CloseSumSq(_, _)
\* the sum of the squares of the closes labelled lo .. hi
CloseSumSq(lo, hi) ==
    IF lo > hi THEN 0
    ELSE IF lo = hi THEN close[hi + 1][1] * close[hi + 1][1]
    ELSE LET mid == (lo + hi) \div 2 IN CloseSumSq(lo, mid) + CloseSumSq(mid + 1, hi)

\* v is the sample (N-1) variance of the 20 closes that end at label i
IsSampleVariance(v, i) ==
    /\ v[2] > 0
    /\ v[1] * (20 * 19) =
           v[2] * (20 * CloseSumSq(i - 19, i)
                   - CloseSum(i - 19, i) * CloseSum(i - 19, i))

\* C15: ma, upper and lower are defined at exactly the timestamps of sma20
\* (indices 19..n-1 for n real closes), ma = sma20 there, and at each of them
\* upper - lower = 2 * num_std * std with upper >= ma >= lower, std being the
\* trailing 20-point sample (N-1) standard deviation
C15_BollingerBands ==
    (HasBoll /\ AllReal) =>
        LET b     == ind_out.out["bollinger"]
            sma20 == ind_out.out["sma20"]
        IN
        /\ DOMAIN sma20 = 19 .. Len(close) - 1
        /\ DOMAIN b.ma = DOMAIN sma20
        /\ DOMAIN b.upper = DOMAIN sma20
        /\ DOMAIN b.lower = DOMAIN sma20
        /\ \A t \in DOMAIN sma20 :
               /\ b.ma[t] = sma20[t]
               \* upper - lower = (2 * num_std) * sqrt(variance)
               /\ b.upper[t][1] = b.lower[t][1]
               /\ FSub(b.upper[t][2], b.lower[t][2]) = Float(4)
               /\ b.upper[t][3] = b.lower[t][3]
               /\ IsSampleVariance(b.upper[t][3], t)
               \* upper >= ma >= lower
               /\ b.upper[t][1] = b.ma[t]
               /\ FLe(Zero, b.upper[t][2])
               /\ FLe(b.lower[t][2], Zero)
               /\ FLe(Zero, b.upper[t][3])

\* a series with a turn inside a window: bands of positive width round the mean
C15_Witness ==
    /\ HasBoll
    /\ AllReal
    /\ gen.turns > 0
    /\ Len(close) >= 25
    /\ DOMAIN ind_out.out["bollinger"].upper = 19 .. Len(close) - 1
    /\ \E t \in DOMAIN ind_out.out["bollinger"].upper :
           /\ FLt(Zero, ind_out.out["bollinger"].upper[t][3])
           /\ ind_out.out["bollinger"].upper[t][3]
                  # ind_out.out["bollinger"].upper[19][3]

----------------------------------------------------------------------------
(* Properties of the retry loops of _download_history, under FairSpec *)

CallsOn(path) == {i \in CallIndices : events[i].path = path}

\* at most 3 calls on each path, the primary calls before the secondary ones, and
\* no secondary call before 3 primary calls have failed
RetryShape ==
    /\ Cardinality(CallsOn("yf.download")) <= 3
    /\ Cardinality(CallsOn("ticker.history")) <= 3
    /\ \A i \in CallsOn("yf.download"), j \in CallsOn("ticker.history") : i < j
    /\ CallsOn("ticker.history") # {} =>
           /\ Cardinality(CallsOn("yf.download")) = 3
           /\ \A i \in CallsOn("yf.download") : ~events[i].ok

\* the request in flight ends with a series or with one of the three error kinds
FetchEnds ==
    (pc # "idle") ~>
        (pc = "idle" /\ result \in {"df", "UpstreamRateLimitError", "raise", "empty"})

\* C16: whatever the upstream does, a fetch makes at most 3 primary and at most 3
\* secondary calls, every primary call before every secondary one, the secondary
\* path only after exactly 3 primary attempts that each gave a fault or an empty
\* result, and the fetch always ends with a non-empty series or an error kind
C16_BoundedOrderedRetry == []RetryShape /\ FetchEnds

\* three failed primary attempts, then the second secondary attempt succeeded
C16_Witness ==
    /\ pc = "idle"
    /\ result = "df"
    /\ Cardinality(CallsOn("yf.download")) = 3
    /\ Cardinality(CallsOn("ticker.history")) = 2
    /\ events[Len(events)].ok

----------------------------------------------------------------------------
(* Properties of the waits of _download_history, under Spec *)

IsSleep(i) == events[i].ev = "sleep"

IsFailedCall(i) == events[i].ev = "call" /\ ~events[i].ok

\* C17: waits happen only between attempts: a wait follows failed attempt n of a
\* path and lasts 1.5 x n seconds (n restarting at 1 on the secondary path), every
\* wait is followed by another attempt, no wait follows a successful attempt, and
\* none follows the third secondary attempt before the fetch reports its error
C17_BackoffSchedule ==
    /\ \A i \in 1 .. Len(events) :
           IsSleep(i) =>
               /\ i > 1
               /\ IsFailedCall(i - 1)
               /\ events[i - 1].path = events[i].path
               /\ events[i].n = 15 * events[i - 1].n
               /\ i < Len(events) => events[i + 1].ev = "call"
    /\ (pc \in {"idle", "exhausted"} /\ events # <<>>) =>
           ~IsSleep(Len(events))

----------------------------------------------------------------------------
(* Properties of the entries of _history_cache, under Spec *)

\* every entry holds a series
EntriesHoldSeries ==
    \A key \in DOMAIN _history_cache : _history_cache[key][2] \in Frames

Changed(key) ==
    \/ key \notin DOMAIN _history_cache
    \/ _history_cache'[key] # _history_cache[key]

\* an entry appears or changes only as a request whose fetch returned a series
\* ends, under that request's key, holding the series the last upstream call gave
StoredBySuccess ==
    \A key \in DOMAIN _history_cache' :
        Changed(key)
        => /\ pc = "return" /\ pc' = "idle"
           /\ result' = "df"
           /\ key = cache_key
           /\ events # <<>>
           /\ events[Len(events)].ev = "call" /\ events[Len(events)].ok
           /\ last_outcome \in Frames
           /\ _history_cache'[key][2] = last_outcome

\* no step removes an entry
NothingRemoved ==
    \A key \in DOMAIN _history_cache : key \in DOMAIN _history_cache'

\* an entry is removed only by the lookup that begins a request, only the entry of
\* that request's key, and only when it has expired
RemovedByLookup ==
    \A key \in DOMAIN _history_cache :
        key \notin DOMAIN _history_cache'
        => /\ pc = "idle" /\ evicted'
           /\ key = cache_key'
           /\ _history_cache[key][1] <= now

\* a request whose fetch failed removed no entry, not in its lookup either
FailedRemovedNothing == Exhausted => ~evicted

\* C18: every history-cache entry holds a non-empty series returned by a
\* successful fetch for that entry's key; a request whose fetch ends in
\* RateLimited, UpstreamFailure or NotFound creates, overwrites and removes no
\* entry for any key
C18_HistoryCacheInvariant ==
    /\ []EntriesHoldSeries
    /\ [][StoredBySuccess /\ (pc # "idle" => NothingRemoved)]_vars
    /\ []FailedRemovedNothing

\* C18 as the code has it: every history-cache entry holds a non-empty series
\* returned by a successful fetch for that entry's key; a request whose fetch ends
\* in RateLimited, UpstreamFailure or NotFound creates and overwrites no entry, and
\* removes none but the expired entry of its own key, which its lookup drops
C18_HistoryCacheInvariant_Amended ==
    /\ []EntriesHoldSeries
    /\ [][StoredBySuccess /\ RemovedByLookup]_vars

\* a request whose fetch failed while other keys hold entries, its own having
\* been dropped by its lookup
C18_Witness ==
    /\ Exhausted
    /\ evicted
    /\ DOMAIN _history_cache # {}
    /\ cache_key \notin DOMAIN _history_cache

----------------------------------------------------------------------------
(* Properties of get_quote, under QuoteSpec *)

\* the latest request was answered from _quote_cache
ServedFromCache == quote.symbol # None /\ quote.calls = {}

\* C19: quote-cache entries are created only by a successful quote fetch: a
\* request whose fast snapshot, detailed info and history fallback all fail stores
\* no entry, so no entry holds an all-empty snapshot and no request is answered
\* with one from the cache
C19_NoFailedQuoteCached ==
    /\ \A symbol \in DOMAIN _quote_cache : _quote_cache[symbol][2] # AllNone
    /\ quote.all_failed => quote.symbol \notin DOMAIN _quote_cache
    /\ ServedFromCache => quote.response # AllNone

----------------------------------------------------------------------------
(* Properties of the cached DataFrame objects, under CopySpec *)

Cached(key) == _history_cache[key][2]

\* C20: the series stored in the history cache is never the object handed to
\* request processing: the miss path stores a copy and the hit path works on a
\* copy, so the in-place mutations of a request leave the cached value unchanged
\* and every hit for a key observes a series equal to the one originally fetched
C20_DefensiveCopy ==
    /\ \A key \in DOMAIN _history_cache :
           /\ Cached(key) \in DOMAIN heap
           /\ work.pc # "idle" => Cached(key) # work.df
           /\ heap[Cached(key)] = origin[key]
    /\ (work.pc = "flatten" /\ work.hit) => heap[work.df] = origin[work.key]

\* a hit on an entry fetched with MultiIndex columns has flattened, renamed and
\* re-indexed its own series, and the entry still holds what was fetched
C20_Witness ==
    /\ work.pc = "candles"
    /\ work.hit
    /\ work.key \in DOMAIN _history_cache
    /\ origin[work.key].columns = "MultiIndex"
    /\ heap[work.df] = [origin[work.key] EXCEPT
                            !.columns = "Index", !.lower = TRUE, !.index = "datetime"]
    /\ heap[Cached(work.key)] = origin[work.key]

============================================================================
